---- MODULE Spec2Model ----
(***************************************************************************)
(* Model of stj_search: the SQLite/FTS5 store (db.py), the record          *)
(* normalizer (models.py), the catalog client (client.py), the sync        *)
(* orchestrator (sync.py) and the sync command (cli.py).                   *)
(*                                                                         *)
(* Two specifications share the variables:                                 *)
(*   Spec       sync runs (cli sync / sync_all) against a catalog, with a  *)
(*              reader process querying the committed store;               *)
(*   SpecStore  arbitrary sequences of upsert_acordaos calls on one        *)
(*              connection.                                                *)
(***************************************************************************)
EXTENDS Integers, Sequences, FiniteSets, TLC

(* ------------------------------ bounds --------------------------------- *)
\* number of datasets of the catalog that are modelled (config.DATASETS has
\* 10); the last one publishes no data resource
NumDatasets == 3
\* sync invocations in one behaviour
MaxRuns == 2
\* transient failures (listing, download, unreadable archive member) in one behaviour
MaxFaults == 1
\* upsert_acordaos calls in one behaviour of SpecStore
MaxUpserts == 2
\* longest batch handed to upsert_acordaos in SpecStore
MaxBatch == 2

(* ------------------------------ values --------------------------------- *)
\* A JSON / Python value: a string, an integer, None, or a list.  A long
\* text (ementa, notas) is given by its word; a short text whose characters
\* matter to a query (judge, class, judging body, date) is given as the
\* sequence of its characters.
StrVal(s) == [t |-> "str", v |-> s]
IntVal(s) == [t |-> "int", v |-> s]
ListVal(s) == [t |-> "list", v |-> s]
None == [t |-> "null", v |-> ""]

\* str(x) of Python: the decimal digits of an int, "None" for None, the repr of a list
PyStr(x) ==
    CASE x.t = "str" -> x.v
      [] x.t = "int" -> x.v
      [] x.t = "null" -> "None"
      [] OTHER -> "[list]"

\* dict.get(key, default)
Get(data, key, default) == IF key \in DOMAIN data THEN data[key] ELSE default

(* ------------------------- models.py: Acordao -------------------------- *)
\* Acordao.from_json; data["id"] raises KeyError when the key is absent
HasId(data) == "id" \in DOMAIN data

from_json(data) ==
    [id |-> PyStr(data["id"]),
     sigla_classe |-> Get(data, "siglaClasse", StrVal(<<>>)),
     orgao_julgador |-> Get(data, "nomeOrgaoJulgador", StrVal(<<>>)),
     ministro_relator |-> Get(data, "ministroRelator", StrVal(<<>>)),
     ementa |-> Get(data, "ementa", StrVal("")),
     data_decisao |-> Get(data, "dataDecisao", StrVal(<<>>)),
     notas |-> Get(data, "notas", None)]

\* records = [Acordao.from_json(r) for r in raw]
NormalizeAll(raw) ==
    IF \A i \in DOMAIN raw : HasId(raw[i])
    THEN [ok |-> TRUE, records |-> [i \in DOMAIN raw |-> from_json(raw[i])]]
    ELSE [ok |-> FALSE, records |-> <<>>]

(* --------------------------- db.py: the store -------------------------- *)
\* A database image: the acordaos table, the acordaos_fts index, the
\* sync_state table, and whether SCHEMA has been applied to the file.
EmptyDb == [rows |-> {}, fts |-> {}, sync |-> {}, schema |-> FALSE]

\* sqlite3 binds str, int and None; any other type raises ProgrammingError
Bindable(x) == x.t \in {"str", "int", "null"}

\* TEXT column affinity: an integer is stored as its text
Stored(x) == IF x.t = "int" THEN StrVal(x.v) ELSE x

\* unicode61 tokens of one indexed column (texts of the model are single words)
Tokens(x) == IF x.t = "null" \/ x.v = "" THEN {} ELSE {x.v}

\* the text the index holds for a row: the indexed columns of SCHEMA
IndexedText(row) == Tokens(row.ementa) \cup Tokens(row.notas)

Max(S) == IF S = {} THEN 0 ELSE CHOOSE m \in S : \A x \in S : x <= m

\* rowid of a new row of a table without AUTOINCREMENT: largest rowid + 1,
\* taken before conflict resolution deletes the old row
NewRowid(rows) == Max({r.rowid : r \in rows}) + 1

NoConflict(rows, a) == {}

\* the rows REPLACE conflict resolution deletes: those with the same primary key
Conflicting(rows, a) == {r \in rows : r.id = a.id}

TriggerMissing(fts, new) == fts

\* trigger acordaos_ai: AFTER INSERT, add the new row to the index
acordaos_ai(fts, new) == fts \cup {[rowid |-> new.rowid, tokens |-> IndexedText(new)]}

\* One INSERT OR REPLACE INTO acordaos.  The conflicting row is deleted by
\* conflict resolution, which fires acordaos_ad only with recursive_triggers
\* on; get_connection leaves it off, so the index keeps the old rowid's entry.
InsertOrReplace(db, a) ==
    LET new == [rowid |-> NewRowid(db.rows), id |-> a.id,
                sigla_classe |-> Stored(a.sigla_classe),
                orgao_julgador |-> Stored(a.orgao_julgador),
                ministro_relator |-> Stored(a.ministro_relator),
                ementa |-> Stored(a.ementa),
                data_decisao |-> Stored(a.data_decisao),
                notas |-> Stored(a.notas)]
    IN [db EXCEPT !.rows = (db.rows \ Conflicting(db.rows, a)) \cup {new},
                  !.fts = acordaos_ai(db.fts, new)]

AllBindable(a) ==
    /\ Bindable(a.sigla_classe)
    /\ Bindable(a.orgao_julgador)
    /\ Bindable(a.ministro_relator)
    /\ Bindable(a.ementa)
    /\ Bindable(a.data_decisao)
    /\ Bindable(a.notas)

\* conn.executemany(sql, rows): row by row; a row that cannot be bound raises
\* and leaves the rows before it written in the open transaction
RECURSIVE executemany(_, _)
executemany(db, records) ==
    IF records = <<>> THEN [db |-> db, ok |-> TRUE]
    ELSE IF ~AllBindable(Head(records)) THEN [db |-> db, ok |-> FALSE]
    ELSE executemany(InsertOrReplace(db, Head(records)), Tail(records))

\* a commit that publishes the tables and leaves the index update for later
CommitTablesOnly(st) == [st EXCEPT !.c = [st.w EXCEPT !.fts = st.c.fts]]

\* conn.commit(): the connection's image becomes the file's
Commit(st) == [st EXCEPT !.c = st.w]

\* conn.close(): an open transaction is rolled back
Close(st) == [st EXCEPT !.w = st.c]

\* upsert_acordaos with the error of executemany swallowed
UpsertSwallowsErrors(st, records) ==
    IF records = <<>> THEN [st |-> st, ok |-> TRUE, count |-> 0]
    ELSE [st |-> Commit([st EXCEPT !.w = executemany(st.w, records).db]),
          ok |-> TRUE, count |-> Len(records)]

\* upsert_acordaos(conn, records) on st = [c: file image, w: connection image]
upsert_acordaos(st, records) ==
    IF records = <<>> THEN [st |-> st, ok |-> TRUE, count |-> 0]
    ELSE LET r == executemany(st.w, records)
             written == [st EXCEPT !.w = r.db]
         IN IF r.ok THEN [st |-> Commit(written), ok |-> TRUE, count |-> Len(records)]
            ELSE [st |-> written, ok |-> FALSE, count |-> 0]

\* mark_synced: INSERT OR REPLACE on the primary key (dataset, resource_id),
\* commit; downloaded_at takes its default, datetime('now'), given here as now
mark_synced(st, dataset, resource_id, resource_name, now) ==
    LET kept == {m \in st.w.sync : ~(m.dataset = dataset /\ m.resource_id = resource_id)}
        m == [dataset |-> dataset, resource_id |-> resource_id,
              resource_name |-> resource_name, downloaded_at |-> now]
    IN Commit([st EXCEPT !.w.sync = kept \cup {m}])

NeverSynced(db, dataset, resource_id) == FALSE

is_synced(db, dataset, resource_id) ==
    \E m \in db.sync : m.dataset = dataset /\ m.resource_id = resource_id

\* a clearing that ignores its dataset argument
ClearsEveryMarker(st, dataset) == Commit([st EXCEPT !.w.sync = {}])

\* clear_sync_state(conn, dataset); dataset 0 stands for None
clear_sync_state(st, dataset) ==
    Commit([st EXCEPT !.w.sync = IF dataset # 0
                                 THEN {m \in st.w.sync : m.dataset # dataset}
                                 ELSE {}])

\* init_db: executescript(SCHEMA) commits and creates what is missing; _migrate commits
init_db(st) == Commit([st EXCEPT !.w.schema = TRUE])

\* FROM acordaos_fts f JOIN acordaos a ON a.rowid = f.rowid WHERE acordaos_fts MATCH ?
MatchRows(db, query) ==
    {a \in db.rows : \E f \in db.fts : f.rowid = a.rowid /\ query \in f.tokens}

Ids(rows) == {r.id : r \in rows}

\* a table's records without their rowids
Records(rows) ==
    {[id |-> r.id, sigla_classe |-> r.sigla_classe, orgao_julgador |-> r.orgao_julgador,
      ministro_relator |-> r.ministro_relator, ementa |-> r.ementa,
      data_decisao |-> r.data_decisao, notas |-> r.notas] : r \in rows}

(* --------------------------- db.py: queries ---------------------------- *)
\* the characters of short texts, in code-point order
Alphabet ==
    << "0", "1", "2", "3", "4", "5", "6", "7", "8", "9",
       "A", "B", "C", "D", "E", "F", "G", "H", "I", "J", "K", "L", "M",
       "N", "O", "P", "Q", "R", "S", "T", "U", "V", "W", "X", "Y", "Z",
       "a", "b", "c", "d", "e", "f", "g", "h", "i", "j", "k", "l", "m",
       "n", "o", "p", "q", "r", "s", "t", "u", "v", "w", "x", "y", "z" >>

Ord(c) == CHOOSE i \in DOMAIN Alphabet : Alphabet[i] = c

\* LIKE compares ASCII letters without regard to case (case_sensitive_like is off)
Fold(c) == IF Ord(c) \in 11..36 THEN Alphabet[Ord(c) + 26] ELSE c

\* s < t in the BINARY collation of TEXT columns
RECURSIVE LessText(_, _)
LessText(s, t) ==
    IF t = <<>> THEN FALSE
    ELSE IF s = <<>> THEN TRUE
    ELSE IF Head(s) = Head(t) THEN LessText(Tail(s), Tail(t))
    ELSE Ord(Head(s)) < Ord(Head(t))

\* field LIKE '%' || value || '%', for values of letters and digits
Like(field, value) ==
    \E i \in 0..(Len(field) - Len(value)) :
        \A k \in 1..Len(value) : Fold(field[i + k]) = Fold(value[k])

Min(a, b) == IF a < b THEN a ELSE b

\* SUBSTR(x, 1, 4)
Substr4(x) == SubSeq(x, 1, Min(4, Len(x)))

\* no filter supplied: None and "" are both false in `if ministro:`
NoFilters == [ministro |-> <<>>, classe |-> <<>>, desde |-> <<>>]

\* _build_filters: the clauses ANDed to the MATCH, applied to a row
_build_filters(a, filters) ==
    /\ filters.ministro # <<>> => Like(a.ministro_relator.v, filters.ministro)
    /\ filters.classe # <<>> => Like(a.sigla_classe.v, filters.classe)
    /\ filters.desde # <<>> => ~LessText(a.data_decisao.v, filters.desde)

\* fts5 rejects the empty query: OperationalError, syntax error near ""
FtsSyntaxError(query) == query = ""

\* bm25(acordaos_fts) for a one-word query on texts that hold a word once: an
\* integer with the order of the engine's score, the more negative the
\* shorter the indexed text
bm25(f) == 0 - (100 \div Cardinality(f.tokens))

\* FROM acordaos_fts f JOIN acordaos a ON a.rowid = f.rowid
\* WHERE acordaos_fts MATCH ? {filter_sql}, with bm25 AS rank
Matched(db, query, filters) ==
    {[a |-> p[1], rank |-> bm25(p[2])] :
        p \in {q \in db.rows \X db.fts :
                  /\ q[1].rowid = q[2].rowid
                  /\ query \in q[2].tokens
                  /\ _build_filters(q[1], filters)}}

\* an ordering that ignores the requested mode
AlwaysRank(order) == "rank"

\* order_clause = "a.data_decisao DESC" if order == "data" else "rank"
order_clause(order) == IF order = "data" THEN "a.data_decisao DESC" ELSE "rank"

\* x sorts strictly before y under the clause
SortsBefore(x, y, clause) ==
    IF clause = "a.data_decisao DESC"
    THEN LessText(y.a.data_decisao.v, x.a.data_decisao.v)
    ELSE x.rank < y.rank

\* the order of rows with equal sort keys is the engine's choice: by rowid,
\* ascending or descending
TieBefore(x, y, tie) == IF tie = "asc" THEN x.a.rowid < y.a.rowid ELSE x.a.rowid > y.a.rowid

\* ORDER BY clause
RECURSIVE OrderBy(_, _, _)
OrderBy(S, clause, tie) ==
    IF S = {} THEN <<>>
    ELSE LET h == CHOOSE x \in S : \A y \in S \ {x} :
                      \/ SortsBefore(x, y, clause)
                      \/ ~SortsBefore(y, x, clause) /\ TieBefore(x, y, tie)
         IN <<h>> \o OrderBy(S \ {h}, clause, tie)

\* LIMIT n; a negative n is no limit
Limit(rows, n) == IF n < 0 THEN rows ELSE SubSeq(rows, 1, Min(n, Len(rows)))

\* search(conn, query, ministro=, classe=, desde=, limit=, order=)
search(db, query, filters, limit, order, tie) ==
    IF FtsSyntaxError(query) THEN [raised |-> TRUE, rows |-> <<>>]
    ELSE [raised |-> FALSE,
          rows |-> Limit(OrderBy(Matched(db, query, filters), order_clause(order), tie), limit)]

\* SELECT key, COUNT(*) AS cnt ... GROUP BY key, for keys = [row |-> its key]
GroupBy(keys) ==
    {[key |-> k, cnt |-> Cardinality({x \in DOMAIN keys : keys[x] = k})] :
        k \in {keys[x] : x \in DOMAIN keys}}

\* g sorts strictly before h under "cnt DESC" or "ano DESC"
GroupSortsBefore(g, h, clause) ==
    IF clause = "cnt DESC" THEN g.cnt > h.cnt ELSE LessText(h.key, g.key)

\* ORDER BY clause on groups; groups of equal count come in the engine's
\* choice of order: by key, ascending or descending
RECURSIVE OrderGroups(_, _, _)
OrderGroups(G, clause, tie) ==
    IF G = {} THEN <<>>
    ELSE LET h == CHOOSE g \in G : \A o \in G \ {g} :
                      \/ GroupSortsBefore(g, o, clause)
                      \/ /\ ~GroupSortsBefore(o, g, clause)
                         /\ IF tie = "asc" THEN LessText(g.key, o.key) ELSE LessText(o.key, g.key)
         IN <<h>> \o OrderGroups(G \ {h}, clause, tie)

\* a year breakdown that counts the records without a date too
AllDates(rows) == rows

\* AND a.data_decisao != ''
Dated(rows) == {a \in rows : a.data_decisao.v # <<>>}

\* search_stats(conn, query, ministro=, classe=, desde=)
search_stats(db, query, filters, tie) ==
    IF FtsSyntaxError(query) THEN [raised |-> TRUE]
    ELSE LET base == {x.a : x \in Matched(db, query, filters)}
         IN [raised |-> FALSE,
             total |-> Cardinality(base),
             by_orgao |-> OrderGroups(GroupBy([a \in base |-> a.orgao_julgador.v]),
                                      "cnt DESC", tie),
             by_classe |-> Limit(OrderGroups(GroupBy([a \in base |-> a.sigla_classe.v]),
                                             "cnt DESC", tie), 10),
             by_relator |-> Limit(OrderGroups(GroupBy([a \in base |-> a.ministro_relator.v]),
                                              "cnt DESC", tie), 10),
             by_year |-> Limit(OrderGroups(GroupBy([a \in Dated(base) |->
                                                       Substr4(a.data_decisao.v)]),
                                           "ano DESC", tie), 15)]

\* get_stats(conn); sync_info has no ORDER BY and is given as the set of its rows
get_stats(db, tie) ==
    [total |-> Cardinality(db.rows),
     by_orgao |-> OrderGroups(GroupBy([a \in db.rows |-> a.orgao_julgador.v]), "cnt DESC", tie),
     by_classe |-> Limit(OrderGroups(GroupBy([a \in db.rows |-> a.sigla_classe.v]),
                                     "cnt DESC", tie), 20),
     sync_info |-> {[dataset |-> d,
                     resources |-> Cardinality({m \in db.sync : m.dataset = d}),
                     last_sync |-> Max({m.downloaded_at : m \in {o \in db.sync : o.dataset = d}})] :
                       d \in {m.dataset : m \in db.sync}}]

(* ------------------- the catalog (the Fetcher's upstream) -------------- *)
\* config.DATASETS, cut to NumDatasets entries; a dataset is named by its index
DATASETS == [i \in 1..NumDatasets |-> i]

\* str.upper() on the format strings the catalog uses
Upper(f) ==
    CASE f = "json" -> "JSON"
      [] f = "zip" -> "ZIP"
      [] f = "csv" -> "CSV"
      [] OTHER -> f

\* str.startswith on a name given as its sequence of words
StartsWith(name, word) == Len(name) > 0 /\ name[1] = word

\* the n-th data resource of the catalog: odd ones are JSON, even ones ZIP;
\* every dataset but the last publishes one of each
Descriptor(n) ==
    [id |-> n, name |-> <<"acordaos">>,
     format |-> IF n % 2 = 1 THEN "JSON" ELSE "zip", url |-> n]

\* package_show of a dataset: a glossary file, a CSV export, then its data
\* resources; the last dataset of the catalog has none
get_dataset_resources(dataset) ==
    << [id |-> 0 - dataset, name |-> <<"dicionario", "de", "dados">>, format |-> "JSON", url |-> 0],
       [id |-> 0 - dataset - NumDatasets, name |-> <<"acordaos">>, format |-> "csv", url |-> 0] >>
    \o (IF dataset < NumDatasets
        THEN << Descriptor(2 * dataset - 1), Descriptor(2 * dataset) >>
        ELSE <<>>)

\* SelectSeq with the test of filter_data_resources
IsDataResource(r) ==
    Upper(r.format) \in {"JSON", "ZIP"} /\ ~StartsWith(r.name, "dicionario")

filter_data_resources(resources) == SelectSeq(resources, IsDataResource)

\* raw records as the catalog serves them
Raw(id, ementa) == [id |-> id, ementa |-> StrVal(ementa)]
RawNotas(id, ementa, notas) == [id |-> id, ementa |-> StrVal(ementa), notas |-> StrVal(notas)]

\* What a resource's URL serves: the JSON array of a JSON resource, or the
\* arrays of the .json members of a ZIP resource, in archive order.
\*   n % 4 = 1   JSON, well formed
\*   n % 4 = 2   ZIP, second member holds a record whose ementa is a list
\*   n % 4 = 3   JSON, second record has no "id"
\*   n % 4 = 0   ZIP, re-publishes id 1 (as a number), holds a record whose id
\*               is the empty string, and holds id 7 twice
Payload(n) ==
    CASE n % 4 = 1 ->
           << << Raw(StrVal("1"), "dano"), RawNotas(StrVal("2"), "contrato", "mora") >> >>
      [] n % 4 = 2 ->
           << << Raw(StrVal("3"), "dano") >>,
              << Raw(StrVal("4"), "contrato"),
                 [id |-> StrVal("5"), ementa |-> ListVal("dano")] >> >>
      [] n % 4 = 3 ->
           << << Raw(StrVal("6"), "dano"), [ementa |-> StrVal("contrato")] >> >>
      [] OTHER ->
           << << Raw(IntVal("1"), "locacao"), Raw(StrVal(""), "mora") >>,
              << Raw(StrVal("7"), "contrato"), Raw(StrVal("7"), "dano") >> >>

\* download_and_extract_zip: the .json members of the archive of resource n,
\* extracted into DATA_DIR / dataset; a member is named after its archive
Extracted(dataset, n) == {[dir |-> dataset, name |-> <<n, i>>] : i \in DOMAIN Payload(n)}

\* json_file.unlink(missing_ok=True)
unlink(files, path) == files \ {path}

\* the words a reader may search for
Terms == {"dano", "contrato", "locacao", "mora"}

(* ------------------------------ state ---------------------------------- *)
VARIABLES
    store,           \* [c |-> the database file, w |-> the writer connection's image]
    pc,              \* where the sync command stands
    cfg,             \* [dataset, force] of the current sync invocation
    datasets,        \* sync_all: the datasets still to process; the head is current
    data_resources,  \* sync_dataset: the resources still to process; the head is current
    batches,         \* the raw arrays of the current resource not yet upserted
    total_upserted,  \* sync_dataset's counter
    total,           \* sync_all's counter
    disk,            \* the extracted archive members lying in DATA_DIR
    faults,          \* transient failures so far
    runs,            \* sync invocations so far
    attempted,       \* ids of the resources downloaded in this run
    failed,          \* ids of the resources whose processing raised in this run
    ingested,        \* ids of the resources marked synced in this run
    markedAtStart,   \* ids of the resources that had a marker when the run was invoked
    listRaised,      \* listing a dataset raised in this run
    faulted,         \* a transient failure happened in this run
    abandoned,       \* rowids written by a failed upsert and not rolled back
    prev,            \* what the previous run was and left
    seen,            \* what the reader process observed in its last queries
    written,         \* SpecStore: per identifier, the last record upserted
    earlier,         \* SpecStore: per identifier, the words of its replaced versions
    upserts,         \* SpecStore: upsert_acordaos calls so far
    retry,           \* SpecRetry: the retry loop of the call in progress
    calls,           \* SpecRetry: calls of the client so far
    result,          \* SpecQuery: the outcome of the command in progress
    loads,           \* SpecQuery: corpora loaded so far
    counts           \* per dataset, the counts of the upserts committed in this run

runVars == <<pc, cfg, datasets, data_resources, batches, total_upserted, total, disk>>
histVars == <<attempted, failed, ingested, markedAtStart, listRaised, faulted, abandoned, prev>>
storeHist == <<written, earlier, upserts>>
aside == <<retry, calls, result, loads>>
vars == <<store, runVars, faults, runs, histVars, seen, storeHist, aside, counts>>

Idle == {"idle", "done", "aborted", "crashed", "rejected"}
NoCall == [fn |-> "none", pc |-> "idle", attempt |-> 0, slept |-> <<>>, errors |-> <<>>]
NoPrev == [valid |-> FALSE]
AllIds == {"1", "2", "3", "4", "5", "6", "7"}
NoRecord ==
    [id |-> "", sigla_classe |-> StrVal(<<>>), orgao_julgador |-> StrVal(<<>>),
     ministro_relator |-> StrVal(<<>>), ementa |-> None, data_decisao |-> StrVal(<<>>),
     notas |-> None]

Init ==
    /\ store = [c |-> EmptyDb, w |-> EmptyDb]
    /\ pc = "idle"
    /\ cfg = [dataset |-> 0, force |-> FALSE]
    /\ datasets = <<>>
    /\ data_resources = <<>>
    /\ batches = <<>>
    /\ total_upserted = 0
    /\ total = 0
    /\ disk = {}
    /\ faults = 0
    /\ runs = 0
    /\ attempted = {}
    /\ failed = {}
    /\ ingested = {}
    /\ markedAtStart = {}
    /\ listRaised = FALSE
    /\ faulted = FALSE
    /\ abandoned = {}
    /\ prev = NoPrev
    /\ seen = {}
    /\ written = [i \in AllIds |-> NoRecord]
    /\ earlier = [i \in AllIds |-> {}]
    /\ upserts = 0
    /\ counts = [d \in 1..NumDatasets |-> 0]
    /\ retry = NoCall
    /\ calls = 0
    /\ result = [op |-> "none"]
    /\ loads = 0

(* --------------------- cli.py / sync.py: a sync run -------------------- *)
\* the exception classes raised inside the try block of sync_dataset
Exceptions == {"TransportError", "JSONDecodeError", "KeyError", "ProgrammingError"}

CaughtHttpOnly(kind) == kind = "TransportError"

\* except Exception: every one of them is caught
Caught(kind) == kind \in Exceptions

SkipsMarked(force, db, dataset, resource_id) == is_synced(db, dataset, resource_id)

\* a loop that never takes the continue of line 47
NeverSkips(force, db, dataset, resource_id) == FALSE

\* if not force and db.is_synced(conn, dataset, res_id): continue
ShouldSkip(force, db, dataset, resource_id) ==
    ~force /\ is_synced(db, dataset, resource_id)

Range(q) == {q[i] : i \in DOMAIN q}

\* a counter that keeps the last count only
Overwrite(sum, count) == count

\* total_upserted += count (sync_dataset), total += count (sync_all)
Accumulate(sum, count) == sum + count

\* what a finished run was and left, kept for the next one
Summary ==
    IF runs = 0 THEN NoPrev
    ELSE [valid |-> TRUE, cfg |-> cfg, clean |-> ~faulted,
          ingested |-> ingested, records |-> Records(store.c.rows),
          count |-> Cardinality(store.c.rows)]

NewRun(dataset, force) ==
    /\ pc \in Idle
    /\ runs < MaxRuns
    /\ runs' = runs + 1
    /\ cfg' = [dataset |-> dataset, force |-> force]
    /\ prev' = Summary
    /\ markedAtStart' = {m.resource_id : m \in store.c.sync}
    /\ attempted' = {}
    /\ failed' = {}
    /\ ingested' = {}
    /\ listRaised' = FALSE
    /\ faulted' = FALSE
    /\ abandoned' = {}
    /\ data_resources' = <<>>
    /\ batches' = <<>>
    /\ total_upserted' = 0
    /\ total' = 0
    /\ counts' = [d \in 1..NumDatasets |-> 0]
    /\ UNCHANGED <<disk, faults, seen, storeHist, aside>>

\* sync_all up to its first catalog request: init_db, the dataset list, total = 0
BeginSyncAll(st, dataset_filter) ==
    /\ store' = init_db(st)
    /\ datasets' = IF dataset_filter # 0 THEN <<dataset_filter>> ELSE DATASETS
    /\ pc' = "dataset"

\* a dataset name that config.DATASETS does not list (0 stands for no -d option)
UnknownDataset(dataset) == dataset # 0 /\ dataset \notin Range(DATASETS)

\* the exit status of a sync command that ended at the position at: 0 when
\* sync returned, 1 from SystemExit(1) for an unknown dataset, and 1 when an
\* exception left sync (nothing in cli.sync or in the command group catches it)
ExitCode(at) == IF at = "done" THEN 0 ELSE 1

\* cli sync [-d dataset] [--force], up to the first catalog request.  An
\* unknown dataset name ends the command before a connection is opened.  With
\* --force the markers are cleared on the fresh connection before sync_all
\* runs init_db; on a file without the sync_state table the DELETE raises
\* OperationalError, the finally clause closes the connection, the command dies.
CliSync(dataset, force) ==
    IF UnknownDataset(dataset)
    THEN /\ pc \in Idle
         /\ pc' = "rejected"
         /\ UNCHANGED <<store, cfg, datasets, data_resources, batches, total_upserted, total,
                        disk, faults, runs, histVars, seen, storeHist, aside, counts>>
    ELSE /\ NewRun(dataset, force)
         /\ IF force /\ ~store.c.schema
            THEN /\ pc' = "crashed"
                 /\ store' = Close(store)
                 /\ datasets' = <<>>
            ELSE BeginSyncAll(IF force THEN clear_sync_state(store, dataset) ELSE store,
                              dataset)

\* sync_all(conn, dataset_filter=..., force=...) called on a fresh connection
SyncAll(dataset_filter, force) ==
    /\ NewRun(dataset_filter, force)
    /\ BeginSyncAll(store, dataset_filter)

\* sync_dataset, lines 25-36: the listing arrived
ListOk ==
    /\ pc = "dataset"
    /\ datasets # <<>>
    /\ LET found == filter_data_resources(get_dataset_resources(Head(datasets)))
       IN IF found = <<>>
          THEN /\ datasets' = Tail(datasets)
               /\ UNCHANGED <<pc, data_resources, total_upserted>>
          ELSE /\ data_resources' = found
               /\ total_upserted' = 0
               /\ pc' = "loop"
               /\ UNCHANGED datasets
    /\ UNCHANGED <<store, cfg, batches, total, disk, faults, runs, histVars, seen, storeHist, aside, counts>>

\* get_dataset_resources raised after its retries: line 26 stands outside any
\* try, the exception leaves sync_dataset and sync_all, the connection is closed
ListFail ==
    /\ pc = "dataset"
    /\ datasets # <<>>
    /\ faults < MaxFaults
    /\ faults' = faults + 1
    /\ listRaised' = TRUE
    /\ faulted' = TRUE
    /\ pc' = "aborted"
    /\ store' = Close(store)
    /\ abandoned' = {}
    /\ UNCHANGED <<cfg, datasets, data_resources, batches, total_upserted, total, disk, runs,
                   attempted, failed, ingested, markedAtStart, prev, seen, storeHist, aside, counts>>

\* sync_all returns; the caller closes the connection
Finish ==
    /\ pc = "dataset"
    /\ datasets = <<>>
    /\ pc' = "done"
    /\ store' = Close(store)
    /\ abandoned' = {}
    /\ UNCHANGED <<cfg, datasets, data_resources, batches, total_upserted, total, disk,
                   faults, runs, attempted, failed, ingested, markedAtStart, listRaised,
                   faulted, prev, seen, storeHist, aside, counts>>

\* the for loop of sync_dataset is exhausted: return total_upserted, total += count
LoopEnd ==
    /\ pc = "loop"
    /\ data_resources = <<>>
    /\ total' = Accumulate(total, total_upserted)
    /\ datasets' = Tail(datasets)
    /\ pc' = "dataset"
    /\ UNCHANGED <<store, cfg, data_resources, batches, total_upserted, disk, faults, runs,
                   histVars, seen, storeHist, aside, counts>>

\* lines 44-47: the resource has a marker and the run is not forced
Skip ==
    /\ pc = "loop"
    /\ data_resources # <<>>
    /\ ShouldSkip(cfg.force, store.w, Head(datasets), Head(data_resources).id)
    /\ data_resources' = Tail(data_resources)
    /\ UNCHANGED <<store, pc, cfg, datasets, batches, total_upserted, total, disk, faults,
                   runs, histVars, seen, storeHist, aside, counts>>

\* An exception of class kind raised inside the try block, with the store as
\* st and rowids written by the statement that failed: lines 67-68 log it and
\* the loop goes on; nothing is rolled back.
Raise(kind, st, rowids) ==
    /\ failed' = failed \cup {Head(data_resources).id}
    /\ batches' = <<>>
    /\ IF Caught(kind)
       THEN /\ pc' = "loop"
            /\ store' = st
            /\ abandoned' = abandoned \cup rowids
            /\ data_resources' = Tail(data_resources)
       ELSE /\ pc' = "aborted"
            /\ store' = Close(st)
            /\ abandoned' = {}
            /\ UNCHANGED data_resources

\* lines 49-53 / 61: the download succeeded
DownloadOk ==
    /\ pc = "loop"
    /\ data_resources # <<>>
    /\ ~ShouldSkip(cfg.force, store.w, Head(datasets), Head(data_resources).id)
    /\ attempted' = attempted \cup {Head(data_resources).id}
    /\ batches' = Payload(Head(data_resources).url)
    /\ disk' = IF Upper(Head(data_resources).format) = "ZIP"
               THEN disk \cup Extracted(Head(datasets), Head(data_resources).url)
               ELSE disk
    /\ pc' = "ingest"
    /\ UNCHANGED <<store, cfg, datasets, data_resources, total_upserted, total, faults, runs,
                   failed, ingested, markedAtStart, listRaised, faulted, abandoned, prev,
                   seen, storeHist, aside, counts>>

\* the download raised after its retries, or the body was no JSON
DownloadFail(kind) ==
    /\ pc = "loop"
    /\ data_resources # <<>>
    /\ ~ShouldSkip(cfg.force, store.w, Head(datasets), Head(data_resources).id)
    /\ faults < MaxFaults
    /\ faults' = faults + 1
    /\ faulted' = TRUE
    /\ attempted' = attempted \cup {Head(data_resources).id}
    /\ Raise(kind, store, {})
    /\ UNCHANGED <<cfg, datasets, total_upserted, total, disk, runs, ingested, markedAtStart,
                   listRaised, prev, seen, storeHist, aside, counts>>

\* lines 55-59 / 62-64: normalize one raw array and upsert it
IngestBatch ==
    /\ pc = "ingest"
    /\ batches # <<>>
    /\ LET n == NormalizeAll(Head(batches))
           u == upsert_acordaos(store, n.records)
           json_file == [dir |-> Head(datasets),
                         name |-> <<Head(data_resources).url,
                                    Len(Payload(Head(data_resources).url)) - Len(batches) + 1>>]
       IN IF ~n.ok
          THEN /\ Raise("KeyError", store, {})
               /\ UNCHANGED <<total_upserted, disk, counts>>
          ELSE IF ~u.ok
          THEN /\ Raise("ProgrammingError", u.st,
                        {r.rowid : r \in u.st.w.rows} \ {r.rowid : r \in store.w.rows})
               /\ UNCHANGED <<total_upserted, disk, counts>>
          ELSE /\ store' = u.st
               /\ total_upserted' = Accumulate(total_upserted, u.count)
               /\ counts' = [counts EXCEPT ![Head(datasets)] = @ + u.count]
               /\ batches' = Tail(batches)
               /\ disk' = IF Upper(Head(data_resources).format) = "ZIP"
                          THEN unlink(disk, json_file)
                          ELSE disk
               /\ UNCHANGED <<pc, data_resources, failed, abandoned>>
    /\ UNCHANGED <<cfg, datasets, total, faults, runs, attempted, ingested, markedAtStart,
                   listRaised, faulted, prev, seen, storeHist, aside>>

\* parse_json_file raised on an extracted member of a ZIP resource
ParseFail ==
    /\ pc = "ingest"
    /\ batches # <<>>
    /\ Upper(Head(data_resources).format) = "ZIP"
    /\ faults < MaxFaults
    /\ faults' = faults + 1
    /\ faulted' = TRUE
    /\ Raise("JSONDecodeError", store, {})
    /\ UNCHANGED <<cfg, datasets, total_upserted, total, disk, runs, attempted, ingested,
                   markedAtStart, listRaised, prev, seen, storeHist, aside, counts>>

\* line 66: every array of the resource is upserted, write its marker; the
\* clock of the model is the number of the sync invocation
MarkSynced ==
    /\ pc = "ingest"
    /\ batches = <<>>
    /\ store' = mark_synced(store, Head(datasets), Head(data_resources).id,
                            Head(data_resources).name, runs)
    /\ ingested' = ingested \cup {Head(data_resources).id}
    /\ data_resources' = Tail(data_resources)
    /\ pc' = "loop"
    /\ UNCHANGED <<cfg, datasets, batches, total_upserted, total, disk, faults, runs,
                   attempted, failed, markedAtStart, listRaised, faulted, abandoned, prev,
                   seen, storeHist, aside, counts>>

\* Another process runs busca on the database file: it sees what is committed.
\* It compares the records its query returns with the records of the table.
Observe(db, query) ==
    LET hits == Ids(MatchRows(db, query))
        holders == {a.id : a \in {r \in db.rows : query \in IndexedText(r)}}
    IN IF holders \ hits # {} THEN "record without index entry"
       ELSE IF hits \ holders # {} THEN "index entry without record"
       ELSE "consistent"

\* busca run once for each word, between two steps of the writer
ReaderSearch ==
    /\ seen' = {Observe(store.c, q) : q \in Terms}
    /\ UNCHANGED <<store, runVars, faults, runs, histVars, storeHist, aside, counts>>

Next ==
    \/ \E d \in 0..(NumDatasets + 1), f \in BOOLEAN : CliSync(d, f)
    \/ \E d \in 0..NumDatasets, f \in BOOLEAN : SyncAll(d, f)
    \/ ListOk
    \/ ListFail
    \/ Finish
    \/ LoopEnd
    \/ Skip
    \/ DownloadOk
    \/ \E k \in {"TransportError", "JSONDecodeError"} : DownloadFail(k)
    \/ IngestBatch
    \/ ParseFail
    \/ MarkSynced
    \/ ReaderSearch

Spec == Init /\ [][Next]_vars

(* ------------------ SpecStore: sequences of upsert_acordaos ------------ *)
\* the records a caller may hand to upsert_acordaos
RawPool ==
    { Raw(StrVal("1"), "dano"),
      [id |-> StrVal("1"), ementa |-> StrVal("contrato"), notas |-> StrVal("mora"),
       siglaClasse |-> StrVal(<<"R", "E">>), ministroRelator |-> StrVal(<<"S">>),
       nomeOrgaoJulgador |-> StrVal(<<"T", "1">>), dataDecisao |-> StrVal(<<"2", "0">>)],
      Raw(IntVal("1"), "locacao"),
      RawNotas(StrVal("2"), "contrato", "dano"),
      [id |-> StrVal("2"), ementa |-> ListVal("dano")] }

Pool == {from_json(r) : r \in RawPool}

Batches == UNION {[1..n -> Pool] : n \in 0..MaxBatch}

\* a record as the table holds it
AsStored(a) ==
    [id |-> a.id, sigla_classe |-> Stored(a.sigla_classe),
     orgao_julgador |-> Stored(a.orgao_julgador),
     ministro_relator |-> Stored(a.ministro_relator), ementa |-> Stored(a.ementa),
     data_decisao |-> Stored(a.data_decisao), notas |-> Stored(a.notas)]

\* per identifier, the last record executemany wrote and the words of the
\* versions it replaced; executemany stops at the first record it cannot bind
RECURSIVE Track(_, _)
Track(h, records) ==
    IF records = <<>> \/ ~AllBindable(Head(records)) THEN h
    ELSE LET a == Head(records)
             old == h.written[a.id]
         IN Track([written |-> [h.written EXCEPT ![a.id] = AsStored(a)],
                   earlier |-> [h.earlier EXCEPT ![a.id] =
                                   IF old = NoRecord THEN @ ELSE @ \cup IndexedText(old)]],
                  Tail(records))

InitStore ==
    /\ store = [c |-> [EmptyDb EXCEPT !.schema = TRUE], w |-> [EmptyDb EXCEPT !.schema = TRUE]]
    /\ pc = "idle"
    /\ cfg = [dataset |-> 0, force |-> FALSE]
    /\ datasets = <<>>
    /\ data_resources = <<>>
    /\ batches = <<>>
    /\ total_upserted = 0
    /\ total = 0
    /\ disk = {}
    /\ faults = 0
    /\ runs = 0
    /\ attempted = {}
    /\ failed = {}
    /\ ingested = {}
    /\ markedAtStart = {}
    /\ listRaised = FALSE
    /\ faulted = FALSE
    /\ abandoned = {}
    /\ prev = NoPrev
    /\ seen = {}
    /\ written = [i \in AllIds |-> NoRecord]
    /\ earlier = [i \in AllIds |-> {}]
    /\ upserts = 0
    /\ counts = [d \in 1..NumDatasets |-> 0]
    /\ retry = NoCall
    /\ calls = 0
    /\ result = [op |-> "none"]
    /\ loads = 0

\* one call of upsert_acordaos on the open connection
StoreUpsert(records) ==
    /\ upserts < MaxUpserts
    /\ upserts' = upserts + 1
    /\ store' = upsert_acordaos(store, records).st
    /\ LET h == Track([written |-> written, earlier |-> earlier], records)
       IN /\ written' = h.written
          /\ earlier' = h.earlier
    /\ UNCHANGED <<runVars, faults, runs, histVars, seen, aside, counts>>

NextStore == \E b \in Batches : StoreUpsert(b)

SpecStore == InitStore /\ [][NextStore]_vars

(* ------------- SpecRetry: the retry loops of client.py ----------------- *)
MAX_RETRIES == 3
RETRY_DELAY == 5

\* calls of the client in one behaviour of SpecRetry
MaxCalls == 2

\* the functions of the client that retry: the first two go through
\* _request_with_retry, the third has its own loop
RetryingCalls == {"get_dataset_resources", "download_json", "download_and_extract_zip"}

\* except (httpx.HTTPStatusError, httpx.TransportError)
Retryable == {"HTTPStatusError", "TransportError"}

\* exceptions of a request that the except clause does not name
NotRetryable == {"TooManyRedirects"}

\* a backoff that does not grow with the attempt
ConstantWait(attempt) == RETRY_DELAY

\* _request_with_retry: wait = RETRY_DELAY * (attempt + 1)
RequestWait(attempt) == RETRY_DELAY * (attempt + 1)

\* download_and_extract_zip: time.sleep(RETRY_DELAY * (attempt + 1))
ZipWait(attempt) == RETRY_DELAY * (attempt + 1)

\* if attempt < MAX_RETRIES - 1: sleep and go round again; else: raise
SleepsAgain(attempt) == attempt < MAX_RETRIES - 1

\* nothing of the sync command, the reader or the store history has happened
AtRest ==
    /\ pc = "idle"
    /\ cfg = [dataset |-> 0, force |-> FALSE]
    /\ datasets = <<>>
    /\ data_resources = <<>>
    /\ batches = <<>>
    /\ total_upserted = 0
    /\ total = 0
    /\ disk = {}
    /\ faults = 0
    /\ runs = 0
    /\ attempted = {}
    /\ failed = {}
    /\ ingested = {}
    /\ markedAtStart = {}
    /\ listRaised = FALSE
    /\ faulted = FALSE
    /\ abandoned = {}
    /\ prev = NoPrev
    /\ seen = {}
    /\ written = [i \in AllIds |-> NoRecord]
    /\ earlier = [i \in AllIds |-> {}]
    /\ upserts = 0
    /\ counts = [d \in 1..NumDatasets |-> 0]

InitRetry ==
    /\ store = [c |-> EmptyDb, w |-> EmptyDb]
    /\ AtRest
    /\ retry = NoCall
    /\ calls = 0
    /\ result = [op |-> "none"]
    /\ loads = 0

retryFrame == <<store, runVars, faults, runs, histVars, seen, storeHist, result, loads, counts>>

\* a function of the client is called: for attempt in range(MAX_RETRIES)
RetryCall(fn) ==
    /\ retry.pc \in {"idle", "returned", "raised"}
    /\ calls < MaxCalls
    /\ calls' = calls + 1
    /\ retry' = [fn |-> fn, pc |-> "request", attempt |-> 0, slept |-> <<>>, errors |-> <<>>]
    /\ UNCHANGED retryFrame

\* the request of this attempt succeeded: return resp / break
AttemptOk ==
    /\ retry.pc = "request"
    /\ retry' = [retry EXCEPT !.pc = "returned"]
    /\ UNCHANGED <<calls, retryFrame>>

\* the request of this attempt raised e
AttemptRaises(e) ==
    /\ retry.pc = "request"
    /\ retry' = [retry EXCEPT !.errors = Append(@, e),
                              !.pc = IF e \in Retryable /\ SleepsAgain(retry.attempt)
                                     THEN "sleep" ELSE "raised"]
    /\ UNCHANGED <<calls, retryFrame>>

\* time.sleep(...), then the next iteration of the for loop
Sleep ==
    /\ retry.pc = "sleep"
    /\ retry' = [retry EXCEPT !.slept = Append(@, IF retry.fn = "download_and_extract_zip"
                                                  THEN ZipWait(retry.attempt)
                                                  ELSE RequestWait(retry.attempt)),
                              !.attempt = @ + 1,
                              !.pc = "request"]
    /\ UNCHANGED <<calls, retryFrame>>

NextRetry ==
    \/ \E fn \in RetryingCalls : RetryCall(fn)
    \/ AttemptOk
    \/ \E e \in Retryable \cup NotRetryable : AttemptRaises(e)
    \/ Sleep

SpecRetry == InitRetry /\ [][NextRetry]_vars

(* ----------- SpecQuery: busca and info on a loaded store --------------- *)
\* loads of a corpus in one behaviour of SpecQuery
MaxLoads == 2
\* records of the wide corpus
WideSize == 16

SILVA == <<"S", "I", "L", "V", "A">>
COSTA == <<"C", "O", "S", "T", "A">>
REsp == <<"R", "E", "s", "p">>
AgInt == <<"A", "g", "I", "n", "t">>

\* a raw record with the fields the queries look at
RawCase(id, ementa, classe, orgao, relator, data) ==
    [id |-> StrVal(id), ementa |-> StrVal(ementa), siglaClasse |-> StrVal(classe),
     nomeOrgaoJulgador |-> StrVal(orgao), ministroRelator |-> StrVal(relator),
     dataDecisao |-> StrVal(data)]

\* three records of class REsp and one of class AgInt; two share a decision
\* date, one has none; two hold a second word in their notes
SmallCorpus ==
    << [id |-> StrVal("1"), ementa |-> StrVal("dano"), notas |-> StrVal("mora"),
        siglaClasse |-> StrVal(REsp), nomeOrgaoJulgador |-> StrVal(<<"T", "1">>),
        ministroRelator |-> StrVal(SILVA),
        dataDecisao |-> StrVal(<<"2", "0", "2", "0", "0", "1", "0", "1">>)],
       RawCase("2", "dano", AgInt, <<"T", "2">>, COSTA,
               <<"2", "0", "1", "9", "1", "2", "3", "1">>),
       RawCase("3", "contrato", REsp, <<"T", "1">>, SILVA,
               <<"2", "0", "2", "0", "0", "1", "0", "1">>),
       [id |-> StrVal("4"), ementa |-> StrVal("dano"), notas |-> StrVal("contrato"),
        siglaClasse |-> StrVal(REsp), nomeOrgaoJulgador |-> StrVal(<<"T", "1">>),
        ministroRelator |-> StrVal(COSTA)] >>

TwoDigits(n) == <<Alphabet[(n \div 10) + 1], Alphabet[(n % 10) + 1]>>

\* WideSize records on the word "dano": every one has a year of its own, and
\* they spread over eleven classes, eleven judges and three judging bodies
WideCorpus ==
    [i \in 1..WideSize |->
        RawCase("w" \o ToString(i), "dano",
                <<"C">> \o TwoDigits(((i - 1) % 11) + 1),
                <<"T", Alphabet[(i % 3) + 2]>>,
                <<"J">> \o TwoDigits(((i + 4) % 11) + 1),
                <<"2", "0">> \o TwoDigits(i) \o <<"0", "1", "0", "1">>)]

Corpora == {SmallCorpus, WideCorpus}

\* what the search command is given
Queries == {"", "dano", "contrato", "locacao"}
Ministros == {<<>>, SILVA, <<"s", "i", "l", "v", "a">>}
Classes == {<<>>, REsp}
Desdes == {<<>>, <<"2", "0", "2", "0", "0", "1", "0", "1">>}
Limits == {1, 2, 20}
Orders == {"data", "palavra"}
Ties == {"asc", "desc"}

RecordIds == {"1", "4", "9", ""}

NoResult == [op |-> "none"]

InitQuery ==
    /\ store = [c |-> [EmptyDb EXCEPT !.schema = TRUE], w |-> [EmptyDb EXCEPT !.schema = TRUE]]
    /\ AtRest
    /\ retry = NoCall
    /\ calls = 0
    /\ result = NoResult
    /\ loads = 0

queryFrame == <<runVars, faults, runs, histVars, seen, storeHist, retry, calls, counts>>

\* a resource of dataset d serving a corpus is ingested and marked
\* (sync_dataset, lines 61-66), at the time loads + 1
Load(corpus, d) ==
    /\ result = NoResult
    /\ loads < MaxLoads
    /\ loads' = loads + 1
    /\ store' = mark_synced(upsert_acordaos(store, NormalizeAll(corpus).records).st,
                            d, Len(corpus), <<"acordaos">>, loads + 1)
    /\ UNCHANGED <<result, queryFrame>>

\* stj busca QUERY [-m] [-c] [--desde] [-n] [--data | --palavra]
busca(query, filters, limit, order, tie) ==
    /\ result = NoResult
    /\ store' = init_db(store)
    /\ LET out == search(store'.w, query, filters, limit, order, tie)
       IN result' = [op |-> "busca", query |-> query, filters |-> filters, limit |-> limit,
                     order |-> order, out |-> out,
                     exit |-> IF out.raised THEN 1 ELSE 0]
    /\ UNCHANGED <<loads, queryFrame>>

\* stj busca QUERY --stats
busca_stats(query, filters, tie) ==
    /\ result = NoResult
    /\ store' = init_db(store)
    /\ LET out == search_stats(store'.w, query, filters, tie)
       IN result' = [op |-> "busca_stats", query |-> query, filters |-> filters, out |-> out,
                     exit |-> IF out.raised THEN 1 ELSE 0]
    /\ UNCHANGED <<loads, queryFrame>>

\* stj info
info(tie) ==
    /\ result = NoResult
    /\ store' = init_db(store)
    /\ result' = [op |-> "info", out |-> get_stats(store'.w, tie), exit |-> 0]
    /\ UNCHANGED <<loads, queryFrame>>

\* SELECT * FROM acordaos WHERE id = ? ... fetchone(): the row or None
get_by_id(db, record_id) ==
    LET hit == {a \in db.rows : a.id = record_id}
    IN IF hit = {} THEN None ELSE CHOOSE a \in hit : TRUE

\* stj ver RECORD_ID
ver(record_id) ==
    /\ result = NoResult
    /\ store' = init_db(store)
    /\ LET row == get_by_id(store'.w, record_id)
       IN result' = [op |-> "ver", record_id |-> record_id, out |-> row,
                     exit |-> IF row = None THEN 1 ELSE 0]
    /\ UNCHANGED <<loads, queryFrame>>

\* the command's process ends
Exit ==
    /\ result # NoResult
    /\ result' = NoResult
    /\ UNCHANGED <<store, loads, queryFrame>>

NextQuery ==
    \/ \E corpus \in Corpora, d \in 1..(NumDatasets - 1) : Load(corpus, d)
    \/ \E q \in Queries, m \in Ministros, c \in Classes, d \in Desdes,
          n \in Limits, o \in Orders, t \in Ties :
          busca(q, [ministro |-> m, classe |-> c, desde |-> d], n, o, t)
    \/ \E q \in Queries, m \in Ministros, c \in Classes, d \in Desdes, t \in Ties :
          busca_stats(q, [ministro |-> m, classe |-> c, desde |-> d], t)
    \/ \E t \in Ties : info(t)
    \/ \E i \in RecordIds : ver(i)
    \/ Exit

SpecQuery == InitQuery /\ [][NextQuery]_vars

(* ------------------------------ claims --------------------------------- *)

\* the datasets the run was asked for
Requested == IF cfg.dataset # 0 THEN {cfg.dataset} ELSE 1..NumDatasets

\* the ingestible resources of the requested datasets
ScopeIds ==
    UNION {{r.id : r \in Range(filter_data_resources(get_dataset_resources(d)))} : d \in Requested}

\* the identifiers a resource's payload carries
PayloadIds(n) ==
    UNION {{PyStr(Payload(n)[i][j]["id"]) :
               j \in {k \in DOMAIN Payload(n)[i] : HasId(Payload(n)[i][k])}} :
           i \in DOMAIN Payload(n)}

\* the raw arrays of a payload as one sequence, in the order they are upserted
RECURSIVE Concat(_)
Concat(seqs) == IF seqs = <<>> THEN <<>> ELSE Head(seqs) \o Concat(Tail(seqs))

\* the records a resource leaves in the table once all its arrays are
\* upserted: per identifier, the last record that carries it
PayloadRecords(n) ==
    LET f == Concat(Payload(n))
        last == {k \in DOMAIN f :
                    /\ HasId(f[k])
                    /\ \A l \in DOMAIN f :
                          l > k => ~(HasId(f[l]) /\ PyStr(f[l]["id"]) = PyStr(f[k]["id"]))}
    IN {AsStored(from_json(f[k])) : k \in last}

DatasetOf(n) == ((n - 1) \div 2) + 1

HasMarker(db, n) == \E m \in db.sync : m.resource_id = n

RunEnded == pc \in {"done", "aborted"}

\* C1: partial-failure isolation.  At the end of a run in which the processing
\* of some resource raised (and no listing did), every other ingestible
\* resource of the requested datasets that was unsynced or forced, and whose
\* own processing did not raise, has been downloaded and marked, and the
\* identifiers of its records are in the committed store.
C1_FailureIsolated ==
    (RunEnded /\ failed # {} /\ ~listRaised) =>
        \A n \in ScopeIds :
            ((cfg.force \/ n \notin markedAtStart) /\ n \notin failed) =>
                /\ n \in attempted
                /\ n \in ingested
                /\ PayloadIds(n) \subseteq Ids(store.c.rows)

\* a run ended in which a resource failed and a resource of a later dataset was ingested
C1_Witness ==
    /\ pc = "done"
    /\ \E f \in failed, g \in ingested :
          DatasetOf(g) > DatasetOf(f) /\ PayloadIds(g) \subseteq Ids(store.c.rows)

\* C2: a failed listing of one dataset is not fatal: it never ends the run
\* with the exception leaving sync_all, and the resources of the later
\* datasets are still processed.
C2_ListingFailureNotFatal ==
    /\ listRaised => pc # "aborted"
    /\ (RunEnded /\ listRaised) =>
          \A n \in ScopeIds :
              (DatasetOf(n) \notin Range(datasets) \/ DatasetOf(n) # Head(datasets)) =>
                  (n \in attempted \/ n \in markedAtStart)

\* C3: no partial commit of a batch.  No row written by an upsert_acordaos
\* call that failed is ever in the committed store.
C3_NoPartialCommit ==
    \A r \in store.c.rows : r.rowid \notin abandoned

\* C4: a marker is written only once every raw array of its resource has been
\* upserted and committed in this run, the committed table then holding each
\* record of the resource, and whenever a marker is committed the
\* identifiers of all records of its resource are in the committed store.
C4_MarkerAfterRecords ==
    /\ [](\A m \in store.c.sync : PayloadIds(m.resource_id) \subseteq Ids(store.c.rows))
    /\ [][\A m \in store'.c.sync \ store.c.sync :
              /\ pc = "ingest"
              /\ batches = <<>>
              /\ m.resource_id = Head(data_resources).id
              /\ m.dataset = Head(datasets)
              /\ m.resource_id \in attempted
              /\ m.resource_id \notin failed'
              /\ PayloadRecords(m.resource_id) \subseteq Records(store.c.rows)]_vars

\* a ZIP resource of two members was marked in this run
C4_Witness ==
    \E m \in store.c.sync :
        /\ m.resource_id \in ingested
        /\ Len(Payload(m.resource_id)) > 1
        /\ PayloadIds(m.resource_id) \subseteq Ids(store.c.rows)

\* C5: a resource whose processing failed in a run has no marker at the end
\* of that run, whether or not the run was forced.
C5_FailedHasNoMarker ==
    RunEnded => \A n \in failed : ~HasMarker(store.c, n)

\* the resources of the requested datasets the run has gone past
PassedIds ==
    {n \in ScopeIds :
        \/ DatasetOf(n) \notin Range(datasets)
        \/ /\ pc \in {"loop", "ingest"}
           /\ DatasetOf(n) = Head(datasets)
           /\ n \notin {r.id : r \in Range(data_resources)}}

\* C6: force semantics.  In a forced run every ingestible resource of the
\* requested datasets that had a marker when the run was invoked is
\* downloaded again once the run has gone past it, and, unless that
\* processing raised, upserted and marked again.
C6_ForceRefetches ==
    (cfg.force /\ pc \in {"dataset", "loop", "ingest", "done", "aborted"}) =>
        \A n \in PassedIds \cap markedAtStart :
            /\ n \in attempted
            /\ n \notin failed => (n \in ingested /\ PayloadIds(n) \subseteq Ids(store.c.rows))

\* a forced run is ingesting a resource whose marker is_synced still finds
C6_Witness ==
    /\ pc = "ingest"
    /\ cfg.force
    /\ Head(data_resources).id \in markedAtStart
    /\ is_synced(store.w, Head(datasets), Head(data_resources).id)

\* C7: idempotence.  A second run without force, after a run without force
\* over the same datasets, downloads no resource the first run marked; and
\* when the upstream answered both runs alike (no transient failure in
\* either) it leaves the same records and the same record count.
C7_Idempotent ==
    (RunEnded /\ prev.valid /\ ~cfg.force) =>
        /\ attempted \cap prev.ingested = {}
        /\ (~prev.cfg.force /\ prev.cfg.dataset = cfg.dataset /\ prev.clean /\ ~faulted) =>
              /\ Records(store.c.rows) = prev.records
              /\ Cardinality(store.c.rows) = prev.count

\* the second of two such runs ended; the first had ingested resources and
\* the second retried one that fails and wrote records again
C7_Witness ==
    /\ pc = "done"
    /\ prev.valid
    /\ ~cfg.force
    /\ ~prev.cfg.force
    /\ prev.cfg.dataset = cfg.dataset
    /\ prev.clean
    /\ ~faulted
    /\ prev.ingested # {}
    /\ failed # {}
    /\ total > 0

\* C8: after any sequence of upserts the table holds at most one row per
\* identifier, and that row is the last record written with the identifier,
\* every field of it.
C8_LastWriteWins ==
    \A i \in AllIds :
        LET rs == {r \in store.w.rows : r.id = i}
        IN /\ Cardinality(rs) <= 1
           /\ written[i] = NoRecord => rs = {}
           /\ written[i] # NoRecord => Records(rs) = {written[i]}

\* a record with notes was replaced by one without, in a batch holding the
\* identifier twice
C8_Witness ==
    /\ upserts = 2
    /\ "mora" \in earlier["1"]
    /\ "dano" \in earlier["1"]
    /\ written["1"] = AsStored(from_json(Raw(IntVal("1"), "locacao")))
    /\ Cardinality(store.w.rows) = 1

\* C9: index consistency under replacement.  Every row has exactly one index
\* entry, holding the words of its current version, and a query on a word
\* returns exactly the identifiers whose current version holds the word: a
\* replaced record is found by its new words and no record is found by a
\* word that only replaced versions held.
C9_IndexFollowsReplacement ==
    /\ \A r \in store.w.rows :
          {f \in store.w.fts : f.rowid = r.rowid}
              = {[rowid |-> r.rowid, tokens |-> IndexedText(r)]}
    /\ \A q \in Terms :
          Ids(MatchRows(store.w, q))
              = {i \in AllIds : written[i] # NoRecord /\ q \in IndexedText(written[i])}

\* identifier 1 was replaced: found by its new word, and the word only its
\* old version held finds nothing although the index still holds the entry
C9_Witness ==
    /\ "mora" \in earlier["1"]
    /\ written["1"].ementa = StrVal("locacao")
    /\ Ids(MatchRows(store.w, "locacao")) = {"1"}
    /\ MatchRows(store.w, "mora") = {}
    /\ \E f \in store.w.fts : "mora" \in f.tokens

\* C10: a query of another process, run at any moment of a sync run, finds
\* every committed record by the words of its text and finds no record by a
\* word its committed text does not hold.
C10_ReaderConsistent ==
    /\ seen \subseteq {"consistent"}
    /\ \A q \in Terms : Observe(store.c, q) = "consistent"

\* the reader has queried while a run was between two commits of a resource
\* and a replaced record's old entry was in the committed index
C10_Witness ==
    /\ seen = {"consistent"}
    /\ pc = "ingest"
    /\ batches # <<>>
    /\ store.c.rows # {}
    /\ \E f \in store.c.fts : f.rowid \notin {r.rowid : r \in store.c.rows}

\* the payload's only defect is a record without "id": every record that has
\* one can be bound
MalformedOnly(n) ==
    LET f == Concat(Payload(n))
    IN /\ \E k \in DOMAIN f : ~HasId(f[k])
       /\ \A k \in DOMAIN f : HasId(f[k]) => AllBindable(from_json(f[k]))

\* C11: a raw record without identifier is skipped within its resource.  At
\* the end of a run without transient failure, every downloaded resource
\* whose only defect is such a record has its other records in the committed
\* store and has been marked as synced.
C11_MalformedRecordSkipped ==
    (RunEnded /\ ~faulted) =>
        \A n \in attempted :
            MalformedOnly(n) =>
                /\ PayloadIds(n) \subseteq Ids(store.c.rows)
                /\ n \in ingested
                /\ HasMarker(store.c, n)

\* C12: temporary extracted files are deleted before the engine moves on to
\* the next resource, on the success path and on every failure path: outside
\* the processing of a resource no extracted file is on disk.
C12_TempFilesReleased ==
    pc # "ingest" => disk = {}

\* C13: retry policy.  A catalog request or ZIP download makes at most 3
\* attempts; the wait after the failed attempt k (k = 1, 2) is k * 5 seconds;
\* only transport errors and HTTP error statuses are waited on; after the
\* third failed attempt there is no wait and the error is raised; a
\* successful attempt ends the loop with no further wait or attempt.
C13_RetryPolicy ==
    retry.pc # "idle" =>
        /\ retry.attempt + 1 <= 3
        /\ Len(retry.errors) <= 3
        /\ Len(retry.slept) <= 2
        /\ \A k \in DOMAIN retry.slept :
              retry.slept[k] = k * 5 /\ retry.errors[k] \in Retryable
        /\ retry.pc = "request" =>
              Len(retry.errors) = retry.attempt /\ Len(retry.slept) = retry.attempt
        /\ retry.pc = "sleep" =>
              Len(retry.errors) = retry.attempt + 1 /\ Len(retry.slept) = retry.attempt
        /\ retry.pc = "returned" =>
              Len(retry.errors) = retry.attempt /\ Len(retry.slept) = retry.attempt
        /\ retry.pc = "raised" =>
              /\ Len(retry.slept) = Len(retry.errors) - 1
              /\ Len(retry.errors) = retry.attempt + 1
              /\ retry.errors[Len(retry.errors)] \in Retryable => Len(retry.errors) = 3

\* a ZIP download failed three times, waited 5 and 10 seconds, and raised
C13_Witness ==
    /\ retry.fn = "download_and_extract_zip"
    /\ retry.pc = "raised"
    /\ retry.slept = <<5, 10>>
    /\ retry.errors = <<"TransportError", "HTTPStatusError", "TransportError">>

\* the markers that clearing for dataset d (0: all datasets) must leave
MarkersKept(sync, d) == {m \in sync : d # 0 /\ m.dataset # d}

\* C14: clear_sync_state deletes markers only.  Called for a dataset it
\* removes exactly the markers of that dataset, called for all it removes
\* every marker; the records and the index of the connection are unchanged,
\* and when the sync command calls it (on a fresh connection, before a forced
\* run) so are the committed records and index.
C14_ClearsMarkersOnly ==
    /\ [](\A d \in 0..NumDatasets :
            LET r == clear_sync_state(store, d)
            IN /\ r.w.rows = store.w.rows
               /\ r.w.fts = store.w.fts
               /\ r.w.sync = MarkersKept(store.w.sync, d)
               /\ r.c = r.w
               /\ pc \in Idle => (r.c.rows = store.c.rows /\ r.c.fts = store.c.fts))
    /\ [][(pc \in Idle /\ pc' = "dataset" /\ store'.c.sync # store.c.sync) =>
              /\ cfg'.force
              /\ store'.c.sync = MarkersKept(store.c.sync, cfg'.dataset)
              /\ store'.c.rows = store.c.rows
              /\ store'.c.fts = store.c.fts]_vars

\* a forced sync of dataset 1 has cleared the marker of dataset 1 and left
\* the marker of dataset 2 and the records
C14_Witness ==
    /\ pc = "dataset"
    /\ cfg = [dataset |-> 1, force |-> TRUE]
    /\ \E n \in markedAtStart : DatasetOf(n) = 1
    /\ store.c.sync # {}
    /\ \A m \in store.c.sync : m.dataset = 2
    /\ store.c.rows # {}

\* C15: every record in the store has a non-empty identifier, and from_json
\* yields no record with an empty identifier from a raw record of a payload.
C15_IdentifierNonEmpty ==
    /\ \A r \in store.c.rows \cup store.w.rows : r.id # ""
    /\ \A n \in attempted :
          LET f == Concat(Payload(n))
          IN \A k \in DOMAIN f : HasId(f[k]) => from_json(f[k]).id # ""

\* value is an infix of field, character by character
Contains(field, value) ==
    \E i \in 0..(Len(field) - Len(value)) : \A k \in 1..Len(value) : field[i + k] = value[k]

\* C16: filter composition.  Every record the search command returns matches
\* the full-text query, and for each filter supplied: its reporting judge
\* contains the judge value, its class code contains the class value, both
\* as case-sensitive substrings, and its decision date is not before the
\* date value.
C16_FilterComposition ==
    (result.op = "busca" /\ ~result.out.raised) =>
        \A i \in DOMAIN result.out.rows :
            LET a == result.out.rows[i].a
                f == result.filters
            IN /\ a \in store.c.rows
               /\ result.query \in IndexedText(a)
               /\ f.ministro # <<>> => Contains(a.ministro_relator.v, f.ministro)
               /\ f.classe # <<>> => Contains(a.sigla_classe.v, f.classe)
               /\ f.desde # <<>> => ~LessText(a.data_decisao.v, f.desde)

\* C17: an empty query, or a query that matches no record, is not an error:
\* search raises nothing and returns the empty sequence, and the search
\* command does not end with exit code 1.
C17_EmptyQueryNotError ==
    (/\ result.op = "busca"
     /\ \/ result.query = ""
        \/ \A a \in store.c.rows :
               ~(result.query \in IndexedText(a) /\ _build_filters(a, result.filters))) =>
        /\ ~result.out.raised
        /\ result.out.rows = <<>>
        /\ result.exit # 1

\* the committed records a request matches
Matches(query, filters) ==
    {a \in store.c.rows : query \in IndexedText(a) /\ _build_filters(a, filters)}

\* C18: ordering.  The mode of a request is one of recency and relevance, and
\* the result is ordered by the key of that mode alone.  In recency mode the
\* decision dates of the returned sequence never increase and the sequence
\* holds limit-many matches (all, if there are fewer), none of them older
\* than a match left out; in relevance mode the rank scores never decrease.
C18_Ordering ==
    (result.op = "busca" /\ ~result.out.raised) =>
        LET rows == result.out.rows
            M == Matches(result.query, result.filters)
        IN /\ order_clause(result.order) \in {"a.data_decisao DESC", "rank"}
           /\ \A i \in DOMAIN rows : rows[i].a \in M
           /\ \A i, j \in DOMAIN rows : i # j => rows[i].a # rows[j].a
           /\ Len(rows) = Min(result.limit, Cardinality(M))
           /\ result.order = "data" =>
                 /\ \A i, j \in DOMAIN rows :
                       i < j => ~LessText(rows[i].a.data_decisao.v, rows[j].a.data_decisao.v)
                 /\ \A a \in M \ {rows[i].a : i \in DOMAIN rows} :
                       \A i \in DOMAIN rows :
                           ~LessText(rows[i].a.data_decisao.v, a.data_decisao.v)
           /\ result.order # "data" =>
                 \A i, j \in DOMAIN rows : i < j => rows[i].rank <= rows[j].rank

\* a relevance-mode result of two records, the better ranked one decided
\* earlier than the other, with matches left out by the limit
C18_Witness ==
    /\ result.op = "busca"
    /\ result.order = "palavra"
    /\ ~result.out.raised
    /\ Len(result.out.rows) = 2
    /\ result.out.rows[1].rank < result.out.rows[2].rank
    /\ LessText(result.out.rows[1].a.data_decisao.v, result.out.rows[2].a.data_decisao.v)
    /\ Cardinality(Matches(result.query, result.filters)) > 2

\* seq is a breakdown of the rows by the keys [row |-> key]: one entry per
\* listed key with the number of rows that carry it, in descending count,
\* the cap-many largest groups (all groups for a negative cap)
IsBreakdown(seq, keys, cap) ==
    LET count(k) == Cardinality({x \in DOMAIN keys : keys[x] = k})
        groups == {keys[x] : x \in DOMAIN keys}
        listed == {seq[i].key : i \in DOMAIN seq}
    IN /\ listed \subseteq groups
       /\ \A i, j \in DOMAIN seq : i # j => seq[i].key # seq[j].key
       /\ \A i \in DOMAIN seq : seq[i].cnt = count(seq[i].key)
       /\ \A i, j \in DOMAIN seq : i < j => seq[i].cnt >= seq[j].cnt
       /\ Len(seq) = IF cap < 0 THEN Cardinality(groups) ELSE Min(cap, Cardinality(groups))
       /\ \A k \in groups \ listed : \A i \in DOMAIN seq : count(k) <= seq[i].cnt

\* C19: the info command reports, over the whole store, the record count, the
\* breakdown by judging body (all groups, descending), by class code (the 20
\* largest, descending) and by reporting judge, and per dataset the number
\* of its markers and its latest sync time; three records of class REsp and
\* one of class AgInt give total 4 and the class breakdown REsp:3, AgInt:1.
C19_GlobalStats ==
    result.op = "info" =>
        LET g == result.out
            rows == store.c.rows
        IN /\ g.total = Cardinality(rows)
           /\ IsBreakdown(g.by_orgao, [a \in rows |-> a.orgao_julgador.v], 0 - 1)
           /\ IsBreakdown(g.by_classe, [a \in rows |-> a.sigla_classe.v], 20)
           /\ (/\ Cardinality({a \in rows : a.sigla_classe.v = REsp}) = 3
               /\ Cardinality({a \in rows : a.sigla_classe.v = AgInt}) = 1
               /\ Cardinality(rows) = 4)
                => /\ g.total = 4
                   /\ \E i \in DOMAIN g.by_classe : g.by_classe[i] = [key |-> REsp, cnt |-> 3]
                   /\ \E i \in DOMAIN g.by_classe : g.by_classe[i] = [key |-> AgInt, cnt |-> 1]
           /\ g.sync_info =
                 {[dataset |-> d,
                   resources |-> Cardinality({m \in store.c.sync : m.dataset = d}),
                   last_sync |-> CHOOSE t \in {m.downloaded_at : m \in store.c.sync} :
                                    /\ \E m \in store.c.sync : m.dataset = d /\ m.downloaded_at = t
                                    /\ \A m \in store.c.sync : m.dataset = d => m.downloaded_at <= t] :
                     d \in {m.dataset : m \in store.c.sync}}
           /\ "by_relator" \in DOMAIN g
           /\ IsBreakdown(g.by_relator, [a \in rows |-> a.ministro_relator.v], 0 - 1)

\* the first 4 characters of a decision date
YearOf(d) == SubSeq(d, 1, IF Len(d) < 4 THEN Len(d) ELSE 4)

\* C20: searchStats counts exactly the records search matches with the same
\* query and filters and no cap.  Its total is their number; the judging-body
\* breakdown lists all groups, the class and reporting-judge breakdowns the
\* 10 largest, each in descending count; the year breakdown groups the
\* records that have a decision date by its first 4 characters and lists the
\* 15 most recent years, most recent first.
C20_SearchStats ==
    (result.op = "busca_stats" /\ ~result.out.raised) =>
        LET r == result.out
            M == Matches(result.query, result.filters)
            uncapped == search(store.c, result.query, result.filters, 0 - 1, "data", "asc").rows
            dated == {a \in M : a.data_decisao.v # <<>>}
            years == {YearOf(a.data_decisao.v) : a \in dated}
            listed == {r.by_year[i].key : i \in DOMAIN r.by_year}
        IN /\ r.total = Cardinality(M)
           /\ {uncapped[i].a : i \in DOMAIN uncapped} = M
           /\ r.total = Len(uncapped)
           /\ IsBreakdown(r.by_orgao, [a \in M |-> a.orgao_julgador.v], 0 - 1)
           /\ IsBreakdown(r.by_classe, [a \in M |-> a.sigla_classe.v], 10)
           /\ IsBreakdown(r.by_relator, [a \in M |-> a.ministro_relator.v], 10)
           /\ listed \subseteq years
           /\ \A i \in DOMAIN r.by_year :
                 r.by_year[i].cnt =
                     Cardinality({a \in dated : YearOf(a.data_decisao.v) = r.by_year[i].key})
           /\ \A i, j \in DOMAIN r.by_year :
                 i < j => LessText(r.by_year[j].key, r.by_year[i].key)
           /\ Len(r.by_year) = Min(15, Cardinality(years))
           /\ \A y \in years \ listed : \A k \in listed : LessText(y, k)

\* statistics over matches of more than 10 classes, more than 10 judges and
\* more than 15 years, one match having no decision date
C20_Witness ==
    /\ result.op = "busca_stats"
    /\ ~result.out.raised
    /\ Len(result.out.by_classe) = 10
    /\ Len(result.out.by_relator) = 10
    /\ Len(result.out.by_year) = 15
    /\ Len(result.out.by_orgao) > 1
    /\ LET M == Matches(result.query, result.filters)
       IN /\ \E a \in M : a.data_decisao.v = <<>>
          /\ Cardinality({a.sigla_classe.v : a \in M}) > 10
          /\ Cardinality({a.ministro_relator.v : a \in M}) > 10
          /\ Cardinality({YearOf(a.data_decisao.v) : a \in M}) > 16
          /\ result.out.total = Cardinality(M)

\* the datasets a run was asked for, in the order sync_all goes through them
RequestedList == IF cfg.dataset # 0 THEN <<cfg.dataset>> ELSE [i \in 1..NumDatasets |-> i]

IsSuffix(s, t) == \E k \in 0..Len(t) : s = SubSeq(t, k + 1, Len(t))

\* C21: dataset selection.  A run lists and processes the datasets it was
\* asked for and no other: the one named by the filter, or without a filter
\* every dataset of the catalog, each once and in catalog order, one dataset
\* and one resource at a time; and it ends only when every one of them has
\* been processed.
C21_DatasetSelection ==
    pc \in {"dataset", "loop", "ingest", "done", "aborted"} =>
        /\ IsSuffix(datasets, RequestedList)
        /\ attempted \subseteq ScopeIds
        /\ \A n \in attempted :
              DatasetOf(n) \notin Range(datasets) \/ DatasetOf(n) = Head(datasets)
        /\ pc \in {"loop", "ingest"} =>
              /\ datasets # <<>>
              /\ \A i \in DOMAIN data_resources :
                    DatasetOf(data_resources[i].id) = Head(datasets)
        /\ pc \in {"done", "aborted"} => (pc = "done" /\ datasets = <<>>)

\* the sum of f over the set D
RECURSIVE SumOver(_, _)
SumOver(D, f) ==
    IF D = {} THEN 0
    ELSE LET d == CHOOSE x \in D : TRUE IN f[d] + SumOver(D \ {d}, f)

\* the requested datasets whose sync_dataset call has returned
Returned == {d \in Requested : d \notin Range(datasets)}

\* C22: reported totals.  The value sync_dataset returns for a dataset is the
\* sum of the counts of the upserts that committed while it was processed in
\* this run (the number of records of its resources when all were ingested,
\* 0 when none was downloaded), and the value sync_all returns is the sum of
\* these values over the requested datasets.
C22_ReportedTotals ==
    /\ (pc = "loop" /\ data_resources = <<>>) => total_upserted = counts[Head(datasets)]
    /\ pc \in {"dataset", "loop", "ingest", "done"} => total = SumOver(Returned, counts)
    /\ pc = "done" => total = SumOver(Requested, counts)
    /\ pc \in {"dataset", "loop", "ingest", "done"} =>
          \A d \in Returned :
              LET done == {n \in ingested : DatasetOf(n) = d}
              IN /\ {n \in attempted : DatasetOf(n) = d} = {} => counts[d] = 0
                 /\ {n \in failed : DatasetOf(n) = d} = {} =>
                       counts[d] = SumOver(done, [n \in done |-> Len(Concat(Payload(n)))])

\* a run over the whole catalog returned: both datasets with resources
\* upserted records, one of them from the first member of a ZIP resource
\* whose second member failed, and the dataset without resources counted 0
C22_Witness ==
    /\ pc = "done"
    /\ cfg.dataset = 0
    /\ counts[1] > 0
    /\ counts[2] > 0
    /\ counts[NumDatasets] = 0
    /\ total = counts[1] + counts[2]
    /\ \E n \in failed : Len(Payload(n)) > 1 /\ PayloadIds(n) \cap Ids(store.c.rows) # {}

\* C23: exit codes of the sync command.  A sync command that ended did so
\* with exit code 1 exactly when it was given an unknown dataset name, and
\* with exit code 0 in every other case.
C23_ExitCodes ==
    pc \in Idle \ {"idle"} => (ExitCode(pc) = 1 <=> pc = "rejected")

\* the part of C23 about the unknown dataset: the rejected command leaves the
\* store, the markers, the temporary files and the run's bookkeeping as they were
C23_RejectedTouchesNothing ==
    [][(pc # "rejected" /\ pc' = "rejected") =>
          UNCHANGED <<store, cfg, datasets, data_resources, batches, total_upserted, total,
                      disk, faults, runs, histVars, seen, storeHist, aside, counts>>]_vars

\* the part of C23 about search and view: the command exits with 1 exactly
\* when the search raised or no row carries the identifier
C23_QueryExitCodes ==
    result # NoResult =>
        (result.exit = 1 <=>
            \/ result.op \in {"busca", "busca_stats"} /\ result.out.raised
            \/ result.op = "ver" /\ result.record_id \notin Ids(store.w.rows))

\* C24: the store is initialized before any marker operation.  From every
\* store state, a store file without the sync_state table included, a forced
\* sync command clears the markers of its scope without error and goes on to
\* the sync: the command never dies in clear_sync_state, and once it is past
\* the clearing the schema exists.
C24_InitBeforeMarkers ==
    /\ pc # "crashed"
    /\ (cfg.force /\ pc \in {"dataset", "loop", "ingest", "done"}) => store.w.schema

\* C25: skipping in a run without force.  A resource whose marker exists when
\* the loop reaches it is passed over: it is not downloaded, no file is
\* created and the store is not written.  The markers only grow during the
\* run: every marker present at its start is still there, and every marker
\* added is that of a resource ingested in this run.
C25_UnforcedSkips ==
    /\ []((~cfg.force /\ pc \in {"dataset", "loop", "ingest", "done", "aborted"}) =>
            /\ attempted \cap markedAtStart = {}
            /\ \A n \in markedAtStart : HasMarker(store.c, n)
            /\ \A m \in store.c.sync : m.resource_id \in markedAtStart \cup ingested)
    /\ [][(/\ ~cfg.force
           /\ pc = "loop"
           /\ data_resources # <<>>
           /\ is_synced(store.w, Head(datasets), Head(data_resources).id)) =>
             /\ store' = store
             /\ disk' = disk
             /\ attempted' = attempted
             /\ pc' = "loop"
             /\ data_resources' \in {data_resources, Tail(data_resources)}]_vars
    /\ [][~cfg'.force =>
             /\ store.c.sync \subseteq store'.c.sync
             /\ \A m \in store'.c.sync \ store.c.sync : m.resource_id \in ingested']_vars

\* a second run, without force, ended: it passed over a resource marked by
\* the first run and ingested and marked another one
C25_Witness ==
    /\ pc = "done"
    /\ ~cfg.force
    /\ runs = 2
    /\ ScopeIds \cap markedAtStart # {}
    /\ ingested # {}
    /\ \A n \in ingested : n \notin markedAtStart /\ HasMarker(store.c, n)

====
